---- MODULE Spec2Model ----
(***************************************************************************)
(* Model of cmd/goose/main.go: the command-line entry point of goose.      *)
(* One behaviour is one process invocation.  The variables args, dir and   *)
(* the TLS flags hold the result of flags.Parse (main.go:34); pc is the    *)
(* position of main(); trace is the history of the calls main() makes to   *)
(* its collaborators (flag usage, io/ioutil, crypto, the mysql driver's    *)
(* TLS registry, goose.SetDialect, sql.Open, goose.Run).                   *)
(***************************************************************************)
EXTENDS Integers, Sequences, FiniteSets, TLC

VARIABLES args, dir, tlsName, caCert, clientCert, clientKey, useClientCert,
          pc, db, tlsRegistry, trace, exitCode, err

flagVars == <<args, dir, tlsName, caCert, clientCert, clientKey, useClientCert>>
vars == <<args, dir, tlsName, caCert, clientCert, clientKey, useClientCert,
          pc, db, tlsRegistry, trace, exitCode, err>>

(* ---------------------------------------------------------------------- *)
(* Inputs                                                                 *)
(* ---------------------------------------------------------------------- *)

\* Longest positional argument list explored.
MaxArgs == 4

HelpTokens == {"-h", "--help"}

\* Dialect names goose.SetDialect accepts.
Dialects == {"postgres", "mysql", "sqlite3", "redshift", "tidb"}

FirstTokens == HelpTokens \cup {"create", "fix", "oracle"} \cup Dialects
SecondTokens == {"", "./foo.db", "add_column"}
ThirdTokens == {"up", "create", "fix"}
RestTokens == {"sql", "20"}

TokenAt(i) ==
    CASE i = 1 -> FirstTokens
      [] i = 2 -> SecondTokens
      [] i = 3 -> ThirdTokens
      [] OTHER -> RestTokens

ArgLists ==
    UNION { { a \in [1..n -> FirstTokens \cup SecondTokens \cup ThirdTokens \cup RestTokens] :
                \A i \in 1..n : a[i] \in TokenAt(i) } : n \in 0..MaxArgs }

Dirs == {".", "db/migrations"}
TLSNames == {"", "custom"}
CACerts == {"", "ca.pem"}
ClientCerts == {"", "client-cert.pem"}
ClientKeys == {"", "client-key.pem"}

(* ---------------------------------------------------------------------- *)
(* Pure helpers of main()                                                 *)
(* ---------------------------------------------------------------------- *)

Ev(op, p1, p2, h, rest, ok) ==
    [op |-> op, p1 |-> p1, p2 |-> p2, db |-> h, rest |-> rest, ok |-> ok]

\* main.go:37
IsHelp(a) == Len(a) = 0 \/ a[1] \in HelpTokens

\* main.go:44  args[1:]
CreateArgs_FromThird(a) == SubSeq(a, 4, Len(a))

CreateArgs(a) == SubSeq(a, 2, Len(a))

\* main.go:60
AnyTLSFlag_NoName == caCert # "" \/ clientCert # "" \/ clientKey # ""

AnyTLSFlag == caCert # "" \/ clientCert # "" \/ clientKey # "" \/ tlsName # ""

\* main.go:61
TLSDriverMismatch_Never(a) == FALSE

TLSDriverMismatch(a) == a[1] # "mysql"

\* main.go:65
TLSFlagsInvalid_AlwaysClient ==
    (caCert = "" \/ tlsName = "") \/ (clientCert = "" \/ clientKey = "")

TLSFlagsInvalid ==
    (caCert = "" \/ tlsName = "")
    \/ ((clientCert = "" \/ clientKey = "") /\ useClientCert)

\* goose.SetDialect: nil for a known dialect name, an error otherwise.
KnownDialect(d) == d \in Dialects

\* main.go:78-83
WireDriver_NoAlias(d) == d

WireDriver(d) ==
    CASE d = "redshift" -> "postgres"
      [] d = "tidb" -> "mysql"
      [] OTHER -> d

\* main.go:85-89
DbstringUnsupported_Never(s) == FALSE

DbstringUnsupported(s) == s = ""

\* main.go:96-99
Arguments(a) == IF Len(a) > 3 THEN SubSeq(a, 4, Len(a)) ELSE <<>>

(* ---------------------------------------------------------------------- *)
(* Process exit                                                           *)
(* ---------------------------------------------------------------------- *)

\* log.Fatal / log.Fatalf: print and os.Exit(1).
Fatal(class) == pc' = "exit" /\ exitCode' = 1 /\ err' = class

\* return from main(): exit status 0.
Return == pc' = "exit" /\ exitCode' = 0 /\ err' = "none"

Log(e) == trace' = Append(trace, e)

Has(op) == \E i \in DOMAIN trace : trace[i].op = op

Count(op) == Cardinality({i \in DOMAIN trace : trace[i].op = op})

Failed(op) == \E i \in DOMAIN trace : trace[i].op = op /\ ~trace[i].ok

(* ---------------------------------------------------------------------- *)
(* Initial state: flags.Parse has run, main() is at line 36                *)
(* ---------------------------------------------------------------------- *)

Init ==
    /\ args \in ArgLists
    /\ dir \in Dirs
    /\ tlsName \in TLSNames
    /\ caCert \in CACerts
    /\ clientCert \in ClientCerts
    /\ clientKey \in ClientKeys
    /\ useClientCert \in BOOLEAN
    /\ pc = "start"
    /\ db = "nil"
    /\ tlsRegistry = {}
    /\ trace = <<>>
    /\ exitCode = -1
    /\ err = "none"

(* ---------------------------------------------------------------------- *)
(* Steps of main()                                                        *)
(* ---------------------------------------------------------------------- *)

\* main.go:36-40
CheckHelp ==
    /\ pc = "start"
    /\ IF IsHelp(args)
          THEN Log(Ev("Usage", "", "", "nil", <<>>, TRUE)) /\ Return
          ELSE pc' = "switch" /\ UNCHANGED <<trace, exitCode, err>>
    /\ UNCHANGED <<flagVars, db, tlsRegistry>>

\* main.go:43-47
DispatchCreate ==
    /\ pc = "switch"
    /\ args[1] = "create"
    /\ \E ok \in BOOLEAN :
          /\ Log(Ev("Run", "create", dir, "nil", CreateArgs(args), ok))
          /\ IF ok THEN Return ELSE Fatal("RunError")
    /\ UNCHANGED <<flagVars, db, tlsRegistry>>

\* main.go:48-52
DispatchFix ==
    /\ pc = "switch"
    /\ args[1] = "fix"
    /\ \E ok \in BOOLEAN :
          /\ Log(Ev("Run", "fix", dir, "nil", <<>>, ok))
          /\ IF ok THEN Return ELSE Fatal("RunError")
    /\ UNCHANGED <<flagVars, db, tlsRegistry>>

\* main.go:55-58
CheckArgCount ==
    /\ pc = "switch"
    /\ args[1] \notin {"create", "fix"}
    /\ IF Len(args) < 3
          THEN Log(Ev("Usage", "", "", "nil", <<>>, TRUE)) /\ Return
          ELSE pc' = "tls" /\ UNCHANGED <<trace, exitCode, err>>
    /\ UNCHANGED <<flagVars, db, tlsRegistry>>

\* main.go:60-70, up to the call of setupTLS
CheckTLSFlags ==
    /\ pc = "tls"
    /\ IF AnyTLSFlag
          THEN IF TLSDriverMismatch(args) \/ TLSFlagsInvalid
                  THEN Log(Ev("TLSCheck", args[1], "", "nil", <<>>, FALSE))
                       /\ Fatal("ConfigError")
                  ELSE Log(Ev("TLSCheck", args[1], "", "nil", <<>>, TRUE))
                       /\ pc' = "readCA" /\ UNCHANGED <<exitCode, err>>
          ELSE pc' = "dialect" /\ UNCHANGED <<trace, exitCode, err>>
    /\ UNCHANGED <<flagVars, db, tlsRegistry>>

\* main.go:153-156
ReadCA ==
    /\ pc = "readCA"
    /\ \E ok \in BOOLEAN :
          /\ Log(Ev("ReadFile", caCert, "", "nil", <<>>, ok))
          /\ IF ok THEN pc' = "parseCA" /\ UNCHANGED <<exitCode, err>>
                   ELSE Fatal("IOError")
    /\ UNCHANGED <<flagVars, db, tlsRegistry>>

\* main.go:158-163
ParseCA_Unchecked ==
    /\ pc = "parseCA"
    /\ \E ok \in BOOLEAN :
          /\ Log(Ev("AppendCertsFromPEM", "", "", "nil", <<>>, ok))
          /\ pc' = IF useClientCert THEN "loadKeyPair" ELSE "register"
          /\ UNCHANGED <<exitCode, err>>
    /\ UNCHANGED <<flagVars, db, tlsRegistry>>

ParseCA ==
    /\ pc = "parseCA"
    /\ \E ok \in BOOLEAN :
          /\ Log(Ev("AppendCertsFromPEM", "", "", "nil", <<>>, ok))
          /\ IF ok THEN /\ pc' = IF useClientCert THEN "loadKeyPair" ELSE "register"
                        /\ UNCHANGED <<exitCode, err>>
                   ELSE Fatal("PEMError")
    /\ UNCHANGED <<flagVars, db, tlsRegistry>>

\* main.go:163-170
LoadKeyPair ==
    /\ pc = "loadKeyPair"
    /\ \E ok \in BOOLEAN :
          /\ Log(Ev("LoadX509KeyPair", clientCert, clientKey, "nil", <<>>, ok))
          /\ IF ok THEN pc' = "register" /\ UNCHANGED <<exitCode, err>>
                   ELSE Fatal("KeyPairError")
    /\ UNCHANGED <<flagVars, db, tlsRegistry>>

\* main.go:171-178
RegisterTLS ==
    /\ pc = "register"
    /\ tlsRegistry' = tlsRegistry \cup {tlsName}
    /\ Log(Ev("RegisterTLSConfig", tlsName, "", "nil", <<>>, TRUE))
    /\ pc' = "dialect"
    /\ UNCHANGED <<flagVars, db, exitCode, err>>

\* main.go:72-76
SetDialect ==
    /\ pc = "dialect"
    /\ IF KnownDialect(args[1])
          THEN /\ Log(Ev("SetDialect", args[1], "", "nil", <<>>, TRUE))
               /\ pc' = "dbstring" /\ UNCHANGED <<exitCode, err>>
          ELSE /\ Log(Ev("SetDialect", args[1], "", "nil", <<>>, FALSE))
               /\ Fatal("DialectError")
    /\ UNCHANGED <<flagVars, db, tlsRegistry>>

\* main.go:85-89
CheckDbstring ==
    /\ pc = "dbstring"
    /\ IF DbstringUnsupported(args[2])
          THEN Fatal("DbstringError")
          ELSE pc' = "open" /\ UNCHANGED <<exitCode, err>>
    /\ UNCHANGED <<flagVars, db, tlsRegistry, trace>>

\* main.go:91-94 (driver is the value assigned at lines 72 and 78-83)
Open_Shadowed ==
    /\ pc = "open"
    /\ \E ok \in BOOLEAN :
          /\ Log(Ev("Open", WireDriver(args[1]), args[2], "nil", <<>>, ok))
          /\ IF ok THEN pc' = "run" /\ UNCHANGED <<exitCode, err>>
                   ELSE Fatal("OpenError")
    /\ UNCHANGED <<flagVars, db, tlsRegistry>>

Open ==
    /\ pc = "open"
    /\ \E ok \in BOOLEAN :
          /\ Log(Ev("Open", WireDriver(args[1]), args[2], "nil", <<>>, ok))
          /\ IF ok THEN pc' = "run" /\ db' = "db" /\ UNCHANGED <<exitCode, err>>
                   ELSE Fatal("OpenError") /\ UNCHANGED db
    /\ UNCHANGED <<flagVars, tlsRegistry>>

\* main.go:96-104
RunCommand_Retry ==
    /\ pc = "run"
    /\ \E ok \in BOOLEAN :
          /\ Log(Ev("Run", args[3], dir, db, Arguments(args), ok))
          /\ IF ok THEN Return
                   ELSE IF Has("Run") THEN Fatal("RunError")
                                      ELSE UNCHANGED <<pc, exitCode, err>>
    /\ UNCHANGED <<flagVars, db, tlsRegistry>>

RunCommand ==
    /\ pc = "run"
    /\ \E ok \in BOOLEAN :
          /\ Log(Ev("Run", args[3], dir, db, Arguments(args), ok))
          /\ IF ok THEN Return ELSE Fatal("RunError")
    /\ UNCHANGED <<flagVars, db, tlsRegistry>>

Next ==
    \/ CheckHelp
    \/ DispatchCreate
    \/ DispatchFix
    \/ CheckArgCount
    \/ CheckTLSFlags
    \/ ReadCA
    \/ ParseCA
    \/ LoadKeyPair
    \/ RegisterTLS
    \/ SetDialect
    \/ CheckDbstring
    \/ Open
    \/ RunCommand

Spec == Init /\ [][Next]_vars

(* ---------------------------------------------------------------------- *)
(* Vocabulary of the properties                                           *)
(* ---------------------------------------------------------------------- *)

\* The invocation is neither a usage request nor the local create/fix form
\* and carries DRIVER DBSTRING COMMAND.
OnDbPath ==
    /\ Len(args) >= 3
    /\ args[1] \notin HelpTokens
    /\ args[1] \notin {"create", "fix"}

SomeTLSFlagGiven == tlsName # "" \/ caCert # "" \/ clientCert # "" \/ clientKey # ""

NoFileRead == ~Has("ReadFile") /\ ~Has("LoadX509KeyPair")

NoProfile == ~Has("RegisterTLSConfig") /\ tlsRegistry = {}

TLSFailureClasses == {"ConfigError", "IOError", "PEMError", "KeyPairError"}

(* ---------------------------------------------------------------------- *)
(* C1                                                                     *)
(* ---------------------------------------------------------------------- *)

UnknownDriverRun == OnDbPath /\ args[1] \notin Dialects

\* C1 as stated: an invocation with DRIVER DBSTRING COMMAND whose driver is
\* not a recognised one never opens a database, never runs the engine, and
\* ends in the DialectError returned by SetDialect, whatever the TLS flags.
C1_Original ==
    UnknownDriverRun =>
        /\ ~Has("Open")
        /\ ~Has("Run")
        /\ (pc = "exit" => err = "DialectError" /\ Failed("SetDialect"))

\* C1 amended: such an invocation never opens a database and never runs the
\* engine; it ends in the DialectError of SetDialect when no TLS flag is
\* given, and in the ConfigError of the TLS flag check, with SetDialect never
\* called and no file read, when some TLS flag is given.
C1_UnknownDriverNeverOpens ==
    UnknownDriverRun =>
        /\ ~Has("Open")
        /\ ~Has("Run")
        /\ (pc = "exit" =>
              IF SomeTLSFlagGiven
                 THEN err = "ConfigError" /\ ~Has("SetDialect") /\ NoFileRead /\ NoProfile
                 ELSE err = "DialectError" /\ Failed("SetDialect"))

C1_Witness ==
    /\ UnknownDriverRun
    /\ ~SomeTLSFlagGiven
    /\ pc = "exit"
    /\ err = "DialectError"
    /\ exitCode = 1

(* ---------------------------------------------------------------------- *)
(* C2                                                                     *)
(* ---------------------------------------------------------------------- *)

ExpectedWire(token) ==
    IF token = "redshift" THEN "postgres"
    ELSE IF token = "tidb" THEN "mysql"
    ELSE token

\* C2: whenever sql.Open is called, SetDialect was called before it with the
\* user's driver token unchanged, and the driver given to sql.Open is postgres
\* for redshift, mysql for tidb, and the token itself for postgres, mysql and
\* sqlite3.
C2_DialectKeptWireAliased ==
    \A i \in DOMAIN trace : trace[i].op = "Open" =>
        /\ args[1] \in {"postgres", "mysql", "sqlite3", "redshift", "tidb"}
        /\ \E j \in 1..(i - 1) : trace[j].op = "SetDialect" /\ trace[j].p1 = args[1]
        /\ \A j \in DOMAIN trace : trace[j].op = "SetDialect" => trace[j].p1 = args[1]
        /\ trace[i].p1 = ExpectedWire(args[1])
        /\ trace[i].p2 = args[2]

C2_Witness ==
    /\ Len(args) >= 3
    /\ args[1] = "redshift"
    /\ \E i \in DOMAIN trace : trace[i].op = "Open" /\ trace[i].p1 = "postgres"
    /\ \E i \in DOMAIN trace : trace[i].op = "SetDialect" /\ trace[i].p1 = "redshift"

(* ---------------------------------------------------------------------- *)
(* C3                                                                     *)
(* ---------------------------------------------------------------------- *)

TLSAttempted == Has("TLSCheck")

NonMySQLRejected ==
    (TLSAttempted /\ args[1] # "mysql") =>
        /\ pc = "exit"
        /\ exitCode = 1
        /\ err = "ConfigError"
        /\ NoFileRead
        /\ NoProfile

\* C3 as stated: over all invocations, TLS configuration is attempted exactly
\* when some TLS flag is non-empty, and an attempt with a driver other than
\* mysql fails with ConfigError before any file read or registration.
C3_Original ==
    pc = "exit" =>
        /\ (TLSAttempted <=> SomeTLSFlagGiven)
        /\ NonMySQLRejected

\* C3 amended: TLS configuration is attempted exactly when some TLS flag is
\* non-empty and the invocation carries DRIVER DBSTRING COMMAND (at least
\* three tokens, the first neither a help token nor create nor fix); an
\* attempt with a driver other than mysql fails with ConfigError before any
\* file read or registration.
C3_TLSAttemptedIffFlagOnDbPath ==
    /\ pc = "exit" => (TLSAttempted <=> (SomeTLSFlagGiven /\ OnDbPath))
    /\ TLSAttempted => (SomeTLSFlagGiven /\ OnDbPath)
    /\ NonMySQLRejected

C3_Witness ==
    /\ pc = "exit"
    /\ OnDbPath
    /\ TLSAttempted
    /\ tlsName # "" /\ caCert = "" /\ clientCert = "" /\ clientKey = ""
    /\ args[1] = "postgres"
    /\ err = "ConfigError"

(* ---------------------------------------------------------------------- *)
(* C4                                                                     *)
(* ---------------------------------------------------------------------- *)

\* C4: when the first token is create, the engine is run exactly once, with
\* command create, a nil handle, the migrations directory and all remaining
\* tokens in order; SetDialect, TLS configuration and sql.Open never happen.
C4_CreateIsLocal ==
    (Len(args) > 0 /\ args[1] = "create") =>
        /\ ~Has("SetDialect")
        /\ ~Has("TLSCheck") /\ NoFileRead /\ NoProfile
        /\ ~Has("Open")
        /\ Count("Run") <= 1
        /\ pc = "exit" =>
              /\ Len(trace) = 1
              /\ trace[1].op = "Run"
              /\ trace[1].p1 = "create"
              /\ trace[1].db = "nil"
              /\ trace[1].p2 = dir
              /\ Len(trace[1].rest) = Len(args) - 1
              /\ \A k \in 1..(Len(args) - 1) : trace[1].rest[k] = args[k + 1]

C4_Witness ==
    /\ pc = "exit"
    /\ Len(args) >= 3
    /\ args[1] = "create"
    /\ SomeTLSFlagGiven
    /\ Has("Run")

(* ---------------------------------------------------------------------- *)
(* C5                                                                     *)
(* ---------------------------------------------------------------------- *)

LocalCommands == {"create", "fix"}

\* C5 as stated: every engine run with command create or fix gets a nil
\* handle and no sql.Open precedes it, also when create or fix is the third
\* positional token.
C5_Original ==
    \A i \in DOMAIN trace :
        (trace[i].op = "Run" /\ trace[i].p1 \in LocalCommands) =>
            /\ trace[i].db = "nil"
            /\ \A j \in 1..(i - 1) : trace[j].op # "Open"

\* C5 amended: an engine run with command create or fix gets a nil handle
\* and follows no sql.Open when create or fix is the first positional token;
\* when it is the third token (DRIVER DBSTRING create|fix ...), sql.Open has
\* succeeded before the run and the run gets the opened handle.
C5_LocalCommandHandle ==
    \A i \in DOMAIN trace :
        (trace[i].op = "Run" /\ trace[i].p1 \in LocalCommands) =>
            IF args[1] \in LocalCommands
               THEN /\ trace[i].db = "nil"
                    /\ \A j \in 1..(i - 1) : trace[j].op # "Open"
               ELSE /\ trace[i].db = "db"
                    /\ \E j \in 1..(i - 1) : trace[j].op = "Open" /\ trace[j].ok

C5_Witness ==
    /\ Len(args) >= 3
    /\ args[1] = "sqlite3"
    /\ \E i \in DOMAIN trace :
          trace[i].op = "Run" /\ trace[i].p1 = "create" /\ trace[i].db = "db"

(* ---------------------------------------------------------------------- *)
(* C6                                                                     *)
(* ---------------------------------------------------------------------- *)

EmptyDbstringRun == Len(args) >= 3 /\ args[1] \in Dialects /\ args[2] = ""

\* C6 as stated: a recognised driver with an empty connection string always
\* ends in the validation error that names the empty dbstring, and sql.Open
\* and the engine run are never reached.
C6_Original ==
    EmptyDbstringRun =>
        /\ ~Has("Open")
        /\ ~Has("Run")
        /\ (pc = "exit" => err = "DbstringError" /\ exitCode = 1)

\* C6 amended: a recognised driver with an empty connection string never
\* reaches sql.Open or the engine run; the run ends in the validation error
\* that names the empty dbstring when no TLS flag is given or TLS
\* configuration completed, and in the failure of the TLS flag check, CA
\* read, CA parse or key-pair load when that step fails first.
C6_EmptyDbstringNeverOpens ==
    EmptyDbstringRun =>
        /\ ~Has("Open")
        /\ ~Has("Run")
        /\ (pc = "exit" =>
              /\ exitCode = 1
              /\ IF ~SomeTLSFlagGiven \/ Has("RegisterTLSConfig")
                    THEN err = "DbstringError" /\ Has("SetDialect")
                    ELSE err \in TLSFailureClasses /\ ~Has("SetDialect"))

C6_Witness ==
    /\ EmptyDbstringRun
    /\ pc = "exit"
    /\ err = "DbstringError"
    /\ Has("SetDialect")
    /\ ~Has("Open")

(* ---------------------------------------------------------------------- *)
(* C7                                                                     *)
(* ---------------------------------------------------------------------- *)

TooFewTokensRun ==
    /\ Len(args) \in {1, 2}
    /\ args[1] \notin HelpTokens
    /\ args[1] \notin {"create", "fix"}

\* C7: a run with one or two tokens whose first token is not create, fix or
\* a help token does no dialect selection, TLS configuration, open or engine
\* run, and the process ends with a non-zero exit status.
C7_TooFewTokensExitNonZero ==
    TooFewTokensRun =>
        /\ ~Has("SetDialect")
        /\ ~Has("TLSCheck") /\ NoFileRead /\ NoProfile
        /\ ~Has("Open")
        /\ ~Has("Run")
        /\ (pc = "exit" => exitCode # 0)

(* ---------------------------------------------------------------------- *)
(* C8                                                                     *)
(* ---------------------------------------------------------------------- *)

MySQLTLSRun == OnDbPath /\ args[1] = "mysql" /\ SomeTLSFlagGiven

RejectedCombination ==
    \/ caCert = ""
    \/ tlsName = ""
    \/ (useClientCert /\ (clientCert = "" \/ clientKey = ""))

FileOps == {"ReadFile", "LoadX509KeyPair"}

\* C8: with driver mysql and some TLS flag given, the run fails with
\* ConfigError before any file read or registration when cacert is empty,
\* tlsname is empty, or useclientcert is set with clientcert or clientkey
\* empty; in every other combination the check passes and the first file
\* operation is the read of the CA file.
C8_MySQLFlagValidation ==
    (MySQLTLSRun /\ pc \notin {"start", "switch", "tls"}) =>
        IF RejectedCombination
           THEN /\ pc = "exit"
                /\ exitCode = 1
                /\ err = "ConfigError"
                /\ NoFileRead
                /\ NoProfile
           ELSE /\ err # "ConfigError"
                /\ Len(trace) >= 1
                /\ trace[1].op = "TLSCheck" /\ trace[1].ok
                /\ pc # "readCA" =>
                      /\ Len(trace) >= 2
                      /\ trace[2] = Ev("ReadFile", caCert, "", "nil", <<>>, trace[2].ok)
                      /\ \A i \in DOMAIN trace : trace[i].op \in FileOps => i >= 2

C8_Witness ==
    /\ MySQLTLSRun
    /\ ~useClientCert
    /\ clientCert # "" /\ clientKey = ""
    /\ caCert # "" /\ tlsName # ""
    /\ Has("ReadFile")

C8_WitnessRejected ==
    /\ MySQLTLSRun
    /\ useClientCert
    /\ clientCert # "" /\ clientKey = ""
    /\ pc = "exit"
    /\ err = "ConfigError"

(* ---------------------------------------------------------------------- *)
(* C9                                                                     *)
(* ---------------------------------------------------------------------- *)

SetupSteps == {"ReadFile", "AppendCertsFromPEM", "LoadX509KeyPair"}

SetupFailed == \E i \in DOMAIN trace : trace[i].op \in SetupSteps /\ ~trace[i].ok

OkBefore(op, k) == \E i \in 1..(k - 1) : trace[i].op = op /\ trace[i].ok

\* C9: the TLS profile registry is populated at most once per invocation;
\* when some TLS flag is given and sql.Open is called, the profile named
\* tlsname was registered exactly once, before the open call and after the CA
\* read, the CA parse and (with useclientcert) the key-pair load succeeded;
\* when one of those steps fails there is no registration, open or run.
C9_RegisterOnceBeforeOpen ==
    /\ Count("RegisterTLSConfig") <= 1
    /\ Cardinality(tlsRegistry) <= 1
    /\ \A j \in DOMAIN trace :
          (trace[j].op = "Open" /\ SomeTLSFlagGiven) =>
              /\ Count("RegisterTLSConfig") = 1
              /\ tlsRegistry = {tlsName}
              /\ \E i \in 1..(j - 1) :
                    /\ trace[i].op = "RegisterTLSConfig"
                    /\ trace[i].p1 = tlsName
                    /\ OkBefore("ReadFile", i)
                    /\ OkBefore("AppendCertsFromPEM", i)
                    /\ useClientCert => OkBefore("LoadX509KeyPair", i)
    /\ SetupFailed =>
          /\ NoProfile
          /\ ~Has("Open")
          /\ ~Has("Run")

C9_Witness ==
    /\ SomeTLSFlagGiven
    /\ useClientCert
    /\ Has("Open")
    /\ tlsRegistry = {"custom"}

C9_WitnessFailed ==
    /\ pc = "exit"
    /\ Failed("AppendCertsFromPEM")
    /\ exitCode = 1

(* ---------------------------------------------------------------------- *)
(* C10                                                                    *)
(* ---------------------------------------------------------------------- *)

TLSSteps == {"TLSCheck", "ReadFile", "AppendCertsFromPEM", "LoadX509KeyPair",
             "RegisterTLSConfig"}

NoStageTwice ==
    /\ \A i, j \in DOMAIN trace : trace[i].op = trace[j].op => i = j
    /\ Count("Open") <= 1
    /\ Count("Run") <= 1

\* C10 as stated: on the database path dialect resolution has succeeded
\* before any TLS configuration step, no stage is entered twice, and there is
\* at most one open and one engine run.
C10_Original ==
    OnDbPath =>
        /\ \A j \in DOMAIN trace : trace[j].op \in TLSSteps => OkBefore("SetDialect", j)
        /\ NoStageTwice

StageRank(op) ==
    CASE op = "TLSCheck" -> 1
      [] op = "ReadFile" -> 2
      [] op = "AppendCertsFromPEM" -> 3
      [] op = "LoadX509KeyPair" -> 4
      [] op = "RegisterTLSConfig" -> 5
      [] op = "SetDialect" -> 6
      [] op = "Open" -> 7
      [] op = "Run" -> 8
      [] OTHER -> 0

\* C10 amended: each invocation on the database path is a single linear pass
\* through Start, Parsed, optionally TLSConfigured, DialectResolved,
\* Dispatched, then Success or Failure: every TLS configuration step comes
\* before the dialect-selection call, which comes before the open, which
\* comes before the engine run; no stage is entered twice, and there is at
\* most one open and one engine run.
C10_LinearPassTLSFirst ==
    OnDbPath =>
        /\ \A i, j \in DOMAIN trace : i < j => StageRank(trace[i].op) < StageRank(trace[j].op)
        /\ \A j \in DOMAIN trace : trace[j].op \in TLSSteps => ~OkBefore("SetDialect", j)
        /\ \A j \in DOMAIN trace : trace[j].op = "Open" => OkBefore("SetDialect", j)
        /\ \A j \in DOMAIN trace : trace[j].op = "Run" => OkBefore("Open", j)
        /\ (Has("SetDialect") /\ SomeTLSFlagGiven) => Has("RegisterTLSConfig")
        /\ NoStageTwice
        /\ pc = "exit" => exitCode \in {0, 1}

C10_Witness ==
    /\ OnDbPath
    /\ pc = "exit"
    /\ exitCode = 0
    /\ Has("RegisterTLSConfig")
    /\ Has("SetDialect")
    /\ Has("Open")
    /\ Has("Run")

====
